---- MODULE Spec2Model ----
(***************************************************************************)
(* wealth-tracker: process_sheet_data (src/app.py).                        *)
(*                                                                         *)
(* A text (Python str) is a sequence of one-character strings; a sheet row *)
(* is a sequence of texts; a sheet range is a sequence of rows.  Amounts   *)
(* are integers (the inputs used here carry no fractional part, so float   *)
(* arithmetic on them is exact).                                           *)
(***************************************************************************)
EXTENDS Integers, Sequences, FiniteSets

VARIABLES
    net_worth_data,      \* get_sheet_data(DATA_RANGE)
    types_data,          \* get_sheet_data(TYPES_RANGE)
    pc,                  \* position inside process_sheet_data
    type_categories,     \* dict: normalized label -> classification text
    dates,               \* set of datetimes
    types,               \* set of normalized labels
    type_latest_values,  \* dict: normalized label -> (dict: datetime -> value)
    row_i,               \* cursor of the loop over net_worth_data (1-based)
    sorted_dates,        \* sorted(dates)
    latest_data,         \* dict: normalized label -> value
    chart_data,          \* the chart bundle under construction
    exc,                 \* the exception that left process_sheet_data, or "none"
    result               \* what process_sheet_data returned, or NoResult

vars == <<net_worth_data, types_data, pc, type_categories, dates, types,
          type_latest_values, row_i, sorted_dates, latest_data, chart_data,
          exc, result>>

----------------------------------------------------------------------------
(* Bounds of the model. *)

\* rows of an observation range none of which raises
MaxRows == 3

\* rows of an observation range that may hold a row that raises
MaxRowsRaising == 2

\* rows of a classification range none of which raises
MaxTypeRows == 2

\* rows of a classification range that may hold a row that raises
MaxTypeRowsRaising == 1

----------------------------------------------------------------------------
(* Texts. *)

UpperAlphabet ==
    <<"A","B","C","D","E","F","G","H","I","J","K","L","M",
      "N","O","P","Q","R","S","T","U","V","W","X","Y","Z">>

LowerAlphabet ==
    <<"a","b","c","d","e","f","g","h","i","j","k","l","m",
      "n","o","p","q","r","s","t","u","v","w","x","y","z">>

DigitChars == <<"0","1","2","3","4","5","6","7","8","9">>

\* the ASCII characters str.strip() removes
IsSpace(c) == c \in {" ", "\t", "\n", "\r"}

IsDigit(c) == \E k \in DOMAIN DigitChars : DigitChars[k] = c

DigitVal(c) == (CHOOSE k \in DOMAIN DigitChars : DigitChars[k] = c) - 1

\* str.lower() on one character
LowerChar(c) ==
    IF \E k \in DOMAIN UpperAlphabet : UpperAlphabet[k] = c
    THEN LowerAlphabet[CHOOSE k \in DOMAIN UpperAlphabet : UpperAlphabet[k] = c]
    ELSE c

\* str.lower()
lower(s) == [k \in DOMAIN s |-> LowerChar(s[k])]

RECURSIVE lstrip(_)
lstrip(s) ==
    IF s # <<>> /\ IsSpace(Head(s)) THEN lstrip(Tail(s)) ELSE s

RECURSIVE rstrip(_)
rstrip(s) ==
    IF s # <<>> /\ IsSpace(s[Len(s)]) THEN rstrip(SubSeq(s, 1, Len(s) - 1)) ELSE s

\* str.strip()
strip(s) == rstrip(lstrip(s))

AllDigits(s) == \A k \in DOMAIN s : IsDigit(s[k])

\* value of a sequence of decimal digits
RECURSIVE DigitsValue(_)
DigitsValue(s) ==
    IF s = <<>> THEN 0
    ELSE 10 * DigitsValue(SubSeq(s, 1, Len(s) - 1)) + DigitVal(s[Len(s)])

\* str.split(sep) for a one-character separator
RECURSIVE Split(_, _)
Split(s, sep) ==
    IF \E k \in DOMAIN s : s[k] = sep
    THEN LET p == CHOOSE k \in DOMAIN s :
                    s[k] = sep /\ \A j \in 1..(k - 1) : s[j] # sep
         IN  <<SubSeq(s, 1, p - 1)>> \o Split(SubSeq(s, p + 1, Len(s)), sep)
    ELSE <<s>>

----------------------------------------------------------------------------
(* Conversions. *)

IsLeap(y) == (y % 4 = 0 /\ y % 100 # 0) \/ y % 400 = 0

DaysInMonth(y, m) ==
    IF m = 2 THEN (IF IsLeap(y) THEN 29 ELSE 28)
    ELSE IF m \in {4, 6, 9, 11} THEN 30 ELSE 31

\* A failed conversion (the call raises ValueError).
Failed == [ok |-> FALSE]

\* datetime.strptime(date_str, '%d/%m/%Y'): day and month of one or two
\* digits, a year of four, and a day that exists in that month.
parse_date(date_str) ==
    LET f == Split(date_str, "/")
    IN  IF Len(f) # 3 THEN Failed
        ELSE IF ~(Len(f[1]) \in {1, 2} /\ AllDigits(f[1])) THEN Failed
        ELSE IF ~(Len(f[2]) \in {1, 2} /\ AllDigits(f[2])) THEN Failed
        ELSE IF ~(Len(f[3]) = 4 /\ AllDigits(f[3])) THEN Failed
        ELSE LET d == DigitsValue(f[1])
                 m == DigitsValue(f[2])
                 y == DigitsValue(f[3])
             IN  IF m \in 1..12 /\ y >= 1 /\ d >= 1 /\ d <= DaysInMonth(y, m)
                 THEN [ok |-> TRUE, value |-> [year |-> y, month |-> m, day |-> d]]
                 ELSE Failed

\* a <= b on datetimes
DateLE(a, b) ==
    \/ a.year < b.year
    \/ a.year = b.year /\ a.month < b.month
    \/ a.year = b.year /\ a.month = b.month /\ a.day <= b.day

Pad2(n) == <<DigitChars[((n \div 10) % 10) + 1], DigitChars[(n % 10) + 1]>>

Pad4(n) == Pad2(n \div 100) \o Pad2(n % 100)

\* d.strftime('%d/%m/%Y')
strftime(d) == Pad2(d.day) \o <<"/">> \o Pad2(d.month) \o <<"/">> \o Pad4(d.year)

\* float(text) on an optionally signed run of decimal digits with optional
\* surrounding whitespace; any other text of the inputs used here raises.
float(text) ==
    LET t == strip(text)
        signed == t # <<>> /\ Head(t) \in {"+", "-"}
        digits == IF signed THEN Tail(t) ELSE t
    IN  IF digits # <<>> /\ AllDigits(digits)
        THEN [ok |-> TRUE,
              value |-> IF signed /\ Head(t) = "-"
                        THEN 0 - DigitsValue(digits) ELSE DigitsValue(digits)]
        ELSE Failed

\* mutant: the label is stripped but its case is kept
M_normalize_type_KeepsCase(type_str) == strip(type_str)

normalize_type(type_str) == lower(strip(type_str))

\* max(ds) on a non-empty set of datetimes
MaxDate(ds) == CHOOSE d \in ds : \A e \in ds : DateLE(e, d)

MinDate(ds) == CHOOSE d \in ds : \A e \in ds : DateLE(d, e)

\* mutant: the dates are sorted as their day/month/year texts
RECURSIVE M_sorted_ByText(_)
M_sorted_ByText(ds) ==
    IF ds = {} THEN <<>>
    ELSE LET key(d) == <<d.day, d.month, d.year>>
             before(a, b) ==
                 \/ key(a)[1] < key(b)[1]
                 \/ key(a)[1] = key(b)[1] /\ key(a)[2] < key(b)[2]
                 \/ key(a)[1] = key(b)[1] /\ key(a)[2] = key(b)[2]
                        /\ key(a)[3] <= key(b)[3]
             m == CHOOSE d \in ds : \A e \in ds : before(d, e)
         IN  <<m>> \o M_sorted_ByText(ds \ {m})

\* sorted(dates)
RECURSIVE sorted(_)
sorted(ds) ==
    IF ds = {} THEN <<>>
    ELSE LET m == MinDate(ds) IN <<m>> \o sorted(ds \ {m})

RECURSIVE SumOver(_, _)
SumOver(S, f) ==
    IF S = {} THEN 0
    ELSE LET x == CHOOSE y \in S : TRUE IN f[x] + SumOver(S \ {x}, f)

----------------------------------------------------------------------------
(* The steps of process_sheet_data, as functions of its local variables. *)

Asset == <<"A","s","s","e","t">>

Debt == <<"D","e","b","t">>

EmptyDict == <<>>

NoResult == <<>>

\* row[0] or row[1] of a classification row raises IndexError
TypesRowRaises(row) == Len(row) < 2

\* {normalize_type(row[0]): row[1] for row in types_data}: a later row with
\* the same key replaces an earlier one
TypeCategories(td) ==
    LET keys == {normalize_type(td[k][1]) : k \in DOMAIN td}
        last(key) == CHOOSE k \in DOMAIN td :
                        /\ normalize_type(td[k][1]) = key
                        /\ \A j \in DOMAIN td :
                              normalize_type(td[j][1]) = key => j <= k
    IN  [key \in keys |-> td[last(key)][2]]

\* mutant: the length guard is off by one
M_RowOutcome_FourFields(row) ==
    IF Len(row) < 4 THEN "skip"
    ELSE IF Len(row) # 5 THEN "ValueError"
    ELSE IF ~parse_date(row[1]).ok THEN "ValueError"
    ELSE IF ~float(row[5]).ok THEN "ValueError"
    ELSE "accept"

\* mutant: a row whose date or amount does not parse is skipped
M_RowOutcome_SkipsUnparseable(row) ==
    IF Len(row) < 5 THEN "skip"
    ELSE IF Len(row) # 5 THEN "ValueError"
    ELSE IF ~parse_date(row[1]).ok THEN "skip"
    ELSE IF ~float(row[5]).ok THEN "skip"
    ELSE "accept"

\* What the body of the loop over net_worth_data does with a row: "skip"
\* (continue), "accept", or the exception it raises.
RowOutcome(row) ==
    IF Len(row) < 5 THEN "skip"
    ELSE IF Len(row) # 5 THEN "ValueError"           \* too many values to unpack
    ELSE IF ~parse_date(row[1]).ok THEN "ValueError"
    ELSE IF ~float(row[5]).ok THEN "ValueError"
    ELSE "accept"

\* mutant: a value already stored for the date is kept
M_StoreValue_KeepsFirst(tlv, type_, date, value) ==
    LET old == IF type_ \in DOMAIN tlv THEN tlv[type_] ELSE EmptyDict
        new == [d \in (DOMAIN old) \cup {date} |->
                    IF d \in DOMAIN old THEN old[d] ELSE value]
    IN  [t \in (DOMAIN tlv) \cup {type_} |-> IF t = type_ THEN new ELSE tlv[t]]

\* type_latest_values[normalized_type][date] = value
StoreValue(tlv, type_, date, value) ==
    LET old == IF type_ \in DOMAIN tlv THEN tlv[type_] ELSE EmptyDict
        new == [d \in (DOMAIN old) \cup {date} |->
                    IF d = date THEN value ELSE old[d]]
    IN  [t \in (DOMAIN tlv) \cup {type_} |-> IF t = type_ THEN new ELSE tlv[t]]

\* The loop body for an accepted row, on the locals
\* [dates, types, type_latest_values].
AcceptRow(loc, row) ==
    LET date == parse_date(row[1]).value
        normalized_type == normalize_type(row[2])
    IN  [dates |-> loc.dates \cup {date},
         types |-> loc.types \cup {normalized_type},
         type_latest_values |->
             StoreValue(loc.type_latest_values, normalized_type, date,
                        float(row[5]).value)]

\* mutant: min instead of max
M_SnapshotValue_Earliest(by_date, latest_date) ==
    LET type_dates == {d \in DOMAIN by_date : DateLE(d, latest_date)}
    IN  IF type_dates # {} THEN by_date[MinDate(type_dates)] ELSE 0

\* latest_data[type_]: the value at the type's most recent date that is not
\* after latest_date, 0 when it has none
SnapshotValue(by_date, latest_date) ==
    LET type_dates == {d \in DOMAIN by_date : DateLE(d, latest_date)}
    IN  IF type_dates # {} THEN by_date[MaxDate(type_dates)] ELSE 0

LatestData(tys, tlv, sd) ==
    [t \in tys |-> SnapshotValue(tlv[t], sd[Len(sd)])]

\* mutant: min instead of max
M_LatestValue_Earliest(by_date, date) ==
    LET type_dates == {d \in DOMAIN by_date : DateLE(d, date)}
    IN  IF type_dates # {} THEN by_date[MinDate(type_dates)] ELSE 0

\* latest_value in the time-series loop: the value at the type's most recent
\* date that is not after date, 0 when it has none
LatestValue(by_date, date) ==
    LET type_dates == {d \in DOMAIN by_date : DateLE(d, date)}
    IN  IF type_dates # {} THEN by_date[MaxDate(type_dates)] ELSE 0

\* mutant: whatever is not a debt is an asset
M_IsAsset_NotDebt(tc, type_) == ~(type_ \in DOMAIN tc /\ tc[type_] = Debt)

IsAsset(tc, type_) == type_ \in DOMAIN tc /\ tc[type_] = Asset

IsDebt(tc, type_) == ~IsAsset(tc, type_) /\ type_ \in DOMAIN tc /\ tc[type_] = Debt

\* chart_data['type_data'][type_].append(latest_value), on a defaultdict(list)
AppendSeries(type_data, tys, value) ==
    [t \in (DOMAIN type_data) \cup tys |->
        IF t \in tys
        THEN (IF t \in DOMAIN type_data THEN type_data[t] ELSE <<>>) \o <<value[t]>>
        ELSE type_data[t]]

\* mutant: debts added instead of subtracted
M_NetWorth_Sum(assets, debts) == assets + debts

NetWorth(assets, debts) == assets - debts

InitialChart(sd, tys) ==
    [dates |-> [k \in DOMAIN sd |-> strftime(sd[k])],
     types |-> tys,
     type_data |-> EmptyDict,
     total_assets |-> <<>>,
     total_debts |-> <<>>,
     net_worth |-> <<>>]

\* One iteration of the loop over sorted_dates.
ChartStep(chart, date, tys, tlv, tc) ==
    LET value == [t \in tys |-> LatestValue(tlv[t], date)]
        assets == SumOver({t \in tys : IsAsset(tc, t)}, value)
        debts == SumOver({t \in tys : IsDebt(tc, t)}, value)
    IN  [chart EXCEPT
            !.type_data = AppendSeries(chart.type_data, tys, value),
            !.total_assets = Append(chart.total_assets, assets),
            !.total_debts = Append(chart.total_debts, debts),
            !.net_worth = Append(chart.net_worth, NetWorth(assets, debts))]

----------------------------------------------------------------------------
(* process_sheet_data as one function of the two fetched ranges. *)

EmptyLocals == [dates |-> {}, types |-> {}, type_latest_values |-> EmptyDict]

RECURSIVE RowLoop(_, _, _)
RowLoop(nwd, k, loc) ==
    IF k > Len(nwd) THEN [exc |-> "none", loc |-> loc]
    ELSE LET o == RowOutcome(nwd[k])
         IN  IF o = "skip" THEN RowLoop(nwd, k + 1, loc)
             ELSE IF o = "accept" THEN RowLoop(nwd, k + 1, AcceptRow(loc, nwd[k]))
             ELSE [exc |-> o, loc |-> loc]

RECURSIVE ChartLoop(_, _, _, _, _, _)
ChartLoop(chart, sd, k, tys, tlv, tc) ==
    IF k > Len(sd) THEN chart
    ELSE ChartLoop(ChartStep(chart, sd[k], tys, tlv, tc), sd, k + 1, tys, tlv, tc)

Raised(e) == [exc |-> e, result |-> NoResult]

ProcessSheetData(nwd, td) ==
    IF \E k \in DOMAIN td : TypesRowRaises(td[k]) THEN Raised("IndexError")
    ELSE LET tc == TypeCategories(td)
             rows == RowLoop(nwd, 1, EmptyLocals)
         IN  IF rows.exc # "none" THEN Raised(rows.exc)
             ELSE LET loc == rows.loc
                      sd == sorted(loc.dates)
                      latest == LatestData(loc.types, loc.type_latest_values, sd)
                      chart == ChartLoop(InitialChart(sd, loc.types), sd, 1,
                                         loc.types, loc.type_latest_values, tc)
                  IN  [exc |-> "none", result |-> <<chart, latest, tc>>]

----------------------------------------------------------------------------
(* The sheet contents the model draws from. *)

GBP == <<"G","B","P">>

Date_02_01_2023 == <<"0","2","/","0","1","/","2","0","2","3">>

Date_2_1_2023 == <<"2","/","1","/","2","0","2","3">>

Date_03_01_2023 == <<"0","3","/","0","1","/","2","0","2","3">>

Date_01_02_2023 == <<"0","1","/","0","2","/","2","0","2","3">>

Date_ISO == <<"2","0","2","3","-","0","1","-","0","2">>

RowCash1 == <<Date_02_01_2023, <<"C","a","s","h">>, <<"1","0","0">>, GBP, <<"1","0","0">>>>

\* the same day and the same category as RowCash1, both written differently
RowCash2 == <<Date_2_1_2023, <<" ","C","A","S","H">>, <<"2","5","0">>, GBP, <<"2","5","0">>>>

RowCash3 == <<Date_01_02_2023, <<"c","a","s","h"," ">>, <<"4","0">>, GBP, <<" ","4","0">>>>

RowLoan ==
    <<Date_03_01_2023, <<"L","o","a","n">>, <<"-","3","0","0","0">>, GBP,
      <<"-","3","0","0","0">>>>

\* four fields, and neither a date nor an amount that parses
RowShort == <<Date_ISO, <<"L","o","a","n">>, <<"n","/","a">>, GBP>>

\* six fields, all well-formed
RowLong ==
    <<Date_03_01_2023, <<"C","a","s","h">>, <<"5">>, GBP, <<"5">>, <<"n","o","t","e">>>>

RowBadDate == <<Date_ISO, <<"C","a","s","h">>, <<"5">>, GBP, <<"5">>>>

RowBadAmount ==
    <<Date_03_01_2023, <<"L","o","a","n">>, <<"n","/","a">>, GBP, <<"n","/","a">>>>

\* rows the loop accepts or skips
QuietRows == {RowCash1, RowCash2, RowCash3, RowLoan, RowShort}

ObservationRows == QuietRows \cup {RowLong, RowBadDate, RowBadAmount}

Other == <<"O","t","h","e","r">>

TypeCash == << <<"C","a","s","h">>, Asset >>

TypeLoan == << <<"L","O","A","N"," ">>, Debt >>

TypeLoanOther == << <<"l","o","a","n">>, Other >>

\* one field only
TypeShort == << <<"C","a","s","h">> >>

QuietTypeRows == {TypeCash, TypeLoan, TypeLoanOther}

ClassificationRows == QuietTypeRows \cup {TypeShort}

SeqsUpTo(S, n) == UNION {[1..k -> S] : k \in 0..n}

\* A row that raises ends the call, whatever surrounds it: ranges holding
\* such a row are drawn up to a smaller length than those holding none.
ObservationRanges ==
    SeqsUpTo(QuietRows, MaxRows) \cup SeqsUpTo(ObservationRows, MaxRowsRaising)

ClassificationRanges ==
    SeqsUpTo(QuietTypeRows, MaxTypeRows)
        \cup SeqsUpTo(ClassificationRows, MaxTypeRowsRaising)

----------------------------------------------------------------------------
(* One call of process_sheet_data, step by step. *)

Init ==
    /\ net_worth_data = <<>>
    /\ types_data = <<>>
    /\ pc = "fetch"
    /\ type_categories = EmptyDict
    /\ dates = {}
    /\ types = {}
    /\ type_latest_values = EmptyDict
    /\ row_i = 1
    /\ sorted_dates = <<>>
    /\ latest_data = EmptyDict
    /\ chart_data = InitialChart(<<>>, {})
    /\ exc = "none"
    /\ result = NoResult

\* net_worth_data = get_sheet_data(DATA_RANGE); types_data = get_sheet_data(TYPES_RANGE)
FetchSheets ==
    /\ pc = "fetch"
    /\ \E nwd \in ObservationRanges : net_worth_data' = nwd
    /\ \E td \in ClassificationRanges : types_data' = td
    /\ pc' = "categories"
    /\ UNCHANGED <<type_categories, dates, types, type_latest_values, row_i,
                   sorted_dates, latest_data, chart_data, exc, result>>

\* the dict comprehension over types_data
BuildTypeCategories ==
    /\ pc = "categories"
    /\ ~\E k \in DOMAIN types_data : TypesRowRaises(types_data[k])
    /\ type_categories' = TypeCategories(types_data)
    /\ pc' = "rows"
    /\ UNCHANGED <<net_worth_data, types_data, dates, types, type_latest_values,
                   row_i, sorted_dates, latest_data, chart_data, exc, result>>

\* ... which raises on a classification row it cannot index
TypeCategoriesRaise ==
    /\ pc = "categories"
    /\ \E k \in DOMAIN types_data : TypesRowRaises(types_data[k])
    /\ exc' = "IndexError"
    /\ pc' = "raised"
    /\ UNCHANGED <<net_worth_data, types_data, type_categories, dates, types,
                   type_latest_values, row_i, sorted_dates, latest_data,
                   chart_data, result>>

AtRow == pc = "rows" /\ row_i <= Len(net_worth_data)

\* if len(row) < 5: continue
SkipRow ==
    /\ AtRow
    /\ RowOutcome(net_worth_data[row_i]) = "skip"
    /\ row_i' = row_i + 1
    /\ UNCHANGED <<net_worth_data, types_data, pc, type_categories, dates, types,
                   type_latest_values, sorted_dates, latest_data, chart_data,
                   exc, result>>

\* the loop body on a row it accepts
RecordRow ==
    /\ AtRow
    /\ RowOutcome(net_worth_data[row_i]) = "accept"
    /\ LET loc == AcceptRow([dates |-> dates, types |-> types,
                             type_latest_values |-> type_latest_values],
                            net_worth_data[row_i])
       IN  /\ dates' = loc.dates
           /\ types' = loc.types
           /\ type_latest_values' = loc.type_latest_values
    /\ row_i' = row_i + 1
    /\ UNCHANGED <<net_worth_data, types_data, pc, type_categories, sorted_dates,
                   latest_data, chart_data, exc, result>>

\* the loop body raises: the unpacking, parse_date or float
RowRaises ==
    /\ AtRow
    /\ RowOutcome(net_worth_data[row_i]) \notin {"skip", "accept"}
    /\ exc' = RowOutcome(net_worth_data[row_i])
    /\ pc' = "raised"
    /\ UNCHANGED <<net_worth_data, types_data, type_categories, dates, types,
                   type_latest_values, row_i, sorted_dates, latest_data,
                   chart_data, result>>

\* sorted_dates = sorted(dates)
SortDates ==
    /\ pc = "rows"
    /\ row_i > Len(net_worth_data)
    /\ sorted_dates' = sorted(dates)
    /\ pc' = "latest"
    /\ UNCHANGED <<net_worth_data, types_data, type_categories, dates, types,
                   type_latest_values, row_i, latest_data, chart_data, exc, result>>

\* the loop filling latest_data, and the initial chart_data
ComputeLatest ==
    /\ pc = "latest"
    /\ latest_data' = LatestData(types, type_latest_values, sorted_dates)
    /\ chart_data' = InitialChart(sorted_dates, types)
    /\ pc' = "chart"
    /\ UNCHANGED <<net_worth_data, types_data, type_categories, dates, types,
                   type_latest_values, row_i, sorted_dates, exc, result>>

\* the index of the date the time-series loop handles next
date_i == Len(chart_data.total_assets) + 1

\* one iteration of the loop over sorted_dates
ChartDate ==
    /\ pc = "chart"
    /\ date_i <= Len(sorted_dates)
    /\ chart_data' = ChartStep(chart_data, sorted_dates[date_i], types,
                               type_latest_values, type_categories)
    /\ UNCHANGED <<net_worth_data, types_data, pc, type_categories, dates, types,
                   type_latest_values, row_i, sorted_dates, latest_data, exc,
                   result>>

\* return chart_data, latest_data, type_categories
Return ==
    /\ pc = "chart"
    /\ date_i > Len(sorted_dates)
    /\ result' = <<chart_data, latest_data, type_categories>>
    /\ pc' = "done"
    /\ UNCHANGED <<net_worth_data, types_data, type_categories, dates, types,
                   type_latest_values, row_i, sorted_dates, latest_data,
                   chart_data, exc>>

\* The next request calls process_sheet_data afresh: nothing of a call survives it.
NextCall ==
    /\ pc \in {"done", "raised"}
    /\ net_worth_data' = <<>>
    /\ types_data' = <<>>
    /\ pc' = "fetch"
    /\ type_categories' = EmptyDict
    /\ dates' = {}
    /\ types' = {}
    /\ type_latest_values' = EmptyDict
    /\ row_i' = 1
    /\ sorted_dates' = <<>>
    /\ latest_data' = EmptyDict
    /\ chart_data' = InitialChart(<<>>, {})
    /\ exc' = "none"
    /\ result' = NoResult

Next ==
    \/ FetchSheets
    \/ BuildTypeCategories
    \/ TypeCategoriesRaise
    \/ SkipRow
    \/ RecordRow
    \/ RowRaises
    \/ SortDates
    \/ ComputeLatest
    \/ ChartDate
    \/ Return
    \/ NextCall

Spec == Init /\ [][Next]_vars

Done == pc = "done"

Ended == pc \in {"done", "raised"}

\* the composed function and the step-by-step call agree
StepsAgree ==
    Ended => ProcessSheetData(net_worth_data, types_data)
                = [exc |-> exc, result |-> result]

----------------------------------------------------------------------------
(* The fetched ranges, read without the loops of process_sheet_data. *)

HasFiveFields(row) == Len(row) >= 5

\* the rows the loop does not skip
AcceptedRows == {k \in DOMAIN net_worth_data : HasFiveFields(net_worth_data[k])}

\* the accepted rows as observation records, with their place in the input
Observations ==
    {[row |-> k,
      date |-> parse_date(net_worth_data[k][1]).value,
      type |-> normalize_type(net_worth_data[k][2]),
      value |-> float(net_worth_data[k][5]).value] : k \in AcceptedRows}

\* the classification rows as records, with their place in the input
Classifications ==
    {[row |-> k,
      type |-> normalize_type(types_data[k][1]),
      class |-> types_data[k][2]] : k \in DOMAIN types_data}

DatesOf(obs) == {o.date : o \in obs}

TypesOf(obs) == {o.type : o \in obs}

\* the i-th date of ds in ascending order
Nth(ds, i) == CHOOSE d \in ds : Cardinality({e \in ds : DateLE(e, d)}) = i

\* the observations of category c dated at or before q
UpTo(obs, c, q) == {o \in obs : o.type = c /\ DateLE(o.date, q)}

\* the observations of category c at its greatest date at or before q
Freshest(obs, c, q) ==
    LET upto == UpTo(obs, c, q)
    IN  {o \in upto : \A p \in upto : DateLE(p.date, o.date)}

\* the last classification row for category c says cls
ClassifiedAs(cl, c, cls) ==
    \E r \in cl :
        r.type = c /\ r.class = cls /\ \A q \in cl : q.type = c => q.row <= r.row

InTable(cl, c) == \E r \in cl : r.type = c

Series(c) == chart_data.type_data[c]

ValuesAt(tys, i) == [c \in tys |-> Series(c)[i]]

----------------------------------------------------------------------------
(* Claims. *)

\* C1: carry-forward.  For every known category c and every date q of the
\* global date list, the series of c holds at q's index a value recorded for
\* c at the greatest date <= q on which c has an observation, and 0 when c
\* has no observation at or before q.
C1_CarryForward ==
    Done =>
        LET obs == Observations
            ds == DatesOf(obs)
            tys == TypesOf(obs)
        IN  /\ Len(chart_data.dates) = Cardinality(ds)
            /\ tys # {} => DOMAIN chart_data.type_data = tys
            /\ \A i \in DOMAIN chart_data.dates : \A c \in tys :
                  LET fresh == Freshest(obs, c, Nth(ds, i))
                  IN  IF fresh = {} THEN Series(c)[i] = 0
                      ELSE \E o \in fresh : Series(c)[i] = o.value

\* a category carried across a date on which only another category was
\* observed, then changed; the other category is 0 before its first date
C1_Witness ==
    /\ Done
    /\ Len(chart_data.dates) = 3
    /\ LET obs == Observations
           ds == DatesOf(obs)
       IN  \E c \in TypesOf(obs) : \E c2 \in TypesOf(obs) :
              /\ UpTo(obs, c, Nth(ds, 2)) = UpTo(obs, c, Nth(ds, 1))
              /\ Series(c)[1] # 0
              /\ Series(c)[2] = Series(c)[1]
              /\ Series(c)[3] # Series(c)[1]
              /\ Series(c2)[1] = 0
              /\ Series(c2)[2] # 0

\* C2: at every date index total_assets is the sum of the series over
\* exactly the categories classified 'Asset' and total_debts over exactly
\* those classified 'Debt'; a category missing from the classification table
\* or classified otherwise is in neither total, yet has its series and its
\* latest-snapshot entry.
C2_Totals ==
    Done =>
        LET tys == TypesOf(Observations)
            cl == Classifications
            assets == {c \in tys : ClassifiedAs(cl, c, Asset)}
            debts == {c \in tys : ClassifiedAs(cl, c, Debt)}
        IN  /\ \A i \in DOMAIN chart_data.dates :
                  /\ chart_data.total_assets[i] = SumOver(assets, ValuesAt(tys, i))
                  /\ chart_data.total_debts[i] = SumOver(debts, ValuesAt(tys, i))
            /\ \A c \in tys :
                  /\ c \in DOMAIN chart_data.type_data
                  /\ c \in DOMAIN latest_data

\* an asset next to a category classified 'Other', both non-zero
C2_Witness ==
    /\ Done
    /\ LET tys == TypesOf(Observations)
           cl == Classifications
       IN  \E i \in DOMAIN chart_data.dates : \E a \in tys : \E u \in tys :
              /\ ClassifiedAs(cl, a, Asset) /\ Series(a)[i] # 0
              /\ ClassifiedAs(cl, u, Other) /\ Series(u)[i] # 0
              /\ chart_data.total_assets[i] = Series(a)[i]
              /\ chart_data.total_debts[i] = 0

\* a debt next to a category missing from the classification table
C2_WitnessMissing ==
    /\ Done
    /\ LET tys == TypesOf(Observations)
           cl == Classifications
       IN  \E i \in DOMAIN chart_data.dates : \E d \in tys : \E u \in tys :
              /\ ClassifiedAs(cl, d, Debt) /\ Series(d)[i] # 0
              /\ ~InTable(cl, u) /\ Series(u)[i] # 0
              /\ chart_data.total_debts[i] = Series(d)[i]
              /\ chart_data.total_assets[i] = 0

\* C3: net_worth[i] = total_assets[i] - total_debts[i] at every date index,
\* total_debts keeping its sign: one Debt observation of -3000 and no asset
\* give total_debts = [-3000] and net_worth = [3000].
C3_NetWorth ==
    Done =>
        /\ DOMAIN chart_data.net_worth = DOMAIN chart_data.dates
        /\ \A i \in DOMAIN chart_data.dates :
              chart_data.net_worth[i]
                  = chart_data.total_assets[i] - chart_data.total_debts[i]
        /\ (net_worth_data = <<RowLoan>> /\ types_data = <<TypeLoan>>) =>
              /\ chart_data.total_debts = <<0 - 3000>>
              /\ chart_data.net_worth = <<3000>>

C3_Witness ==
    /\ Done
    /\ net_worth_data = <<RowLoan>>
    /\ types_data = <<TypeLoan>>
    /\ chart_data.total_assets = <<0>>

\* C8: latest_data has an entry for exactly the known categories, whatever
\* their classification, and each is the last element of the category's
\* series: its carried-forward value at the most recent global date.
C8_LatestSnapshot ==
    Done =>
        LET obs == Observations
            ds == DatesOf(obs)
            tys == TypesOf(obs)
        IN  /\ DOMAIN latest_data = tys
            /\ \A c \in tys :
                  /\ latest_data[c] = Series(c)[Len(chart_data.dates)]
                  /\ \E o \in Freshest(obs, c, Nth(ds, Cardinality(ds))) :
                        latest_data[c] = o.value

\* an unclassified category last observed before the most recent date
C8_Witness ==
    /\ Done
    /\ LET obs == Observations
           ds == DatesOf(obs)
       IN  \E c \in TypesOf(obs) :
              /\ ~InTable(Classifications, c)
              /\ latest_data[c] # 0
              /\ \A o \in obs : o.type = c => o.date # Nth(ds, Cardinality(ds))

\* C9: every series of chart_data['type_data'] for a category of
\* chart_data['types'], and each of total_assets, total_debts and net_worth,
\* is as long as chart_data['dates'], which lists the distinct dates of the
\* accepted rows once each in ascending order.
C9_Alignment ==
    Done =>
        LET obs == Observations
            ds == DatesOf(obs)
            n == Len(chart_data.dates)
        IN  /\ n = Cardinality(ds)
            /\ \A i \in 1..n : parse_date(chart_data.dates[i]).value = Nth(ds, i)
            /\ chart_data.types = TypesOf(obs)
            /\ \A c \in chart_data.types :
                  c \in DOMAIN chart_data.type_data /\ Len(Series(c)) = n
            /\ Len(chart_data.total_assets) = n
            /\ Len(chart_data.total_debts) = n
            /\ Len(chart_data.net_worth) = n

\* more date texts than dates, and an order of dates that is not the order
\* of their texts
C9_Witness ==
    /\ Done
    /\ Len(chart_data.dates) = 2
    /\ Cardinality({net_worth_data[k][1] : k \in AcceptedRows}) = 3
    /\ chart_data.dates = <<Date_02_01_2023, Date_01_02_2023>>
    /\ Cardinality(chart_data.types) = 1

\* str.upper() on one character
UpperChar(c) ==
    IF \E k \in DOMAIN LowerAlphabet : LowerAlphabet[k] = c
    THEN UpperAlphabet[CHOOSE k \in DOMAIN LowerAlphabet : LowerAlphabet[k] = c]
    ELSE c

upper(s) == [k \in DOMAIN s |-> UpperChar(s[k])]

\* labels that differ from label only in case or surrounding whitespace
Variants(label) ==
    {upper(label), lower(label), <<"\t">> \o label \o <<" ">>, strip(label)}

\* range with field f of row k replaced by text
WithField(range, k, f, text) == [range EXCEPT ![k][f] = text]

Outcome == [exc |-> exc, result |-> result]

\* what the call returns (or raises) does not change when one label is
\* replaced by a variant of it
RelabellingChangesNothing ==
    /\ \A k \in DOMAIN net_worth_data :
          Len(net_worth_data[k]) >= 2 =>
              \A v \in Variants(net_worth_data[k][2]) :
                  ProcessSheetData(WithField(net_worth_data, k, 2, v), types_data)
                      = Outcome
    /\ \A k \in DOMAIN types_data :
          Len(types_data[k]) >= 1 =>
              \A v \in Variants(types_data[k][1]) :
                  ProcessSheetData(net_worth_data, WithField(types_data, k, 1, v))
                      = Outcome

\* every observed label has exactly one key among the keys of the output:
\* itself, stripped and lower-cased
KeysAreNormalized ==
    Done =>
        \A k \in AcceptedRows :
            LET raw == net_worth_data[k][2]
                keys == chart_data.types \cup DOMAIN latest_data
                            \cup DOMAIN chart_data.type_data
            IN  {c \in keys : c \in Variants(raw) \/ upper(c) = upper(strip(raw))}
                    = {lower(strip(raw))}

\* C4: observations and classifications are joined on the label stripped
\* and lower-cased: whenever a call has ended, replacing the label of any
\* observation row or of any classification row by a label that differs from
\* it only in case or surrounding whitespace leaves what it returns (or
\* raises) unchanged, and labels that differ only so share one key of the
\* output.
C4_NormalizedJoin ==
    [](Ended => (RelabellingChangesNothing /\ KeysAreNormalized))

\* two spellings of one category in the observations and a third in the
\* classification table, resolved to one series classified Asset
C4_Witness ==
    /\ Done
    /\ \E j \in AcceptedRows : \E k \in AcceptedRows : \E t \in DOMAIN types_data :
          /\ net_worth_data[j][2] # net_worth_data[k][2]
          /\ net_worth_data[j][2] # types_data[t][1]
          /\ net_worth_data[k][2] # types_data[t][1]
          /\ net_worth_data[j][1] # net_worth_data[k][1]
          /\ chart_data.types = {normalize_type(net_worth_data[j][2])}
          /\ types_data[t][2] = Asset
          /\ chart_data.total_assets = Series(normalize_type(net_worth_data[k][2]))
          /\ Len(chart_data.total_assets) = 2

\* C5: every observation row with at least five fields (a row of more than
\* five included) whose date and amount parse is accepted: the loop body
\* does not raise on it.
C5_RowsOfFiveOrMoreAccepted ==
    (pc = "raised" /\ exc = "ValueError") =>
        LET row == net_worth_data[row_i]
        IN  ~(/\ Len(row) >= 5
              /\ parse_date(row[1]).ok
              /\ float(row[5]).ok)

\* the chart bundle and the snapshot of a call that saw no observation
NothingObserved ==
    /\ chart_data.dates = <<>>
    /\ chart_data.types = {}
    /\ chart_data.type_data = EmptyDict
    /\ chart_data.total_assets = <<>>
    /\ chart_data.total_debts = <<>>
    /\ chart_data.net_worth = <<>>
    /\ latest_data = EmptyDict

\* what the call returns (or raises) is what it returns (or raises) on the
\* same ranges with every observation row of fewer than 5 fields removed,
\* and the loop does not raise on such a row
ShortRowsContributeNothing ==
    /\ Ended =>
          ProcessSheetData(SelectSeq(net_worth_data, HasFiveFields), types_data)
              = Outcome
    /\ (pc = "raised" /\ exc = "ValueError") =>
          HasFiveFields(net_worth_data[row_i])

WellFormedTypes == \A k \in DOMAIN types_data : Len(types_data[k]) >= 2

\* C6 (as stated): an observation row of fewer than 5 fields never raises
\* and contributes nothing, so the call returns what it returns with every
\* such row removed; when no observation row has 5 fields, dates, types and
\* the totals are empty and the latest snapshot is an empty mapping, whatever
\* the classification rows are.
C6_EmptyWhateverTheTypes ==
    /\ ShortRowsContributeNothing
    /\ (Ended /\ AcceptedRows = {}) => (Done /\ NothingObserved)

\* C6 (amended): as stated, with the last part for classification rows of
\* at least 2 fields each: a call with no observation row of 5 fields and
\* only such classification rows returns, with empty dates, types and totals
\* and an empty latest snapshot.
C6_ShortRowsSkipped ==
    /\ ShortRowsContributeNothing
    /\ (Ended /\ AcceptedRows = {} /\ WellFormedTypes) => (Done /\ NothingObserved)

\* only short rows, with unparseable dates, and a classification table
C6_Witness ==
    /\ Done
    /\ Len(net_worth_data) = 2
    /\ AcceptedRows = {}
    /\ ~parse_date(net_worth_data[1][1]).ok
    /\ types_data # <<>>
    /\ NothingObserved

\* a short row with an unparseable date between two accepted rows
C6_WitnessBetween ==
    /\ Done
    /\ Len(net_worth_data) = 3
    /\ ~HasFiveFields(net_worth_data[2])
    /\ ~parse_date(net_worth_data[2][1]).ok
    /\ AcceptedRows = {1, 3}
    /\ types_data # <<>>

\* C7: when several accepted rows share one (normalized category, date)
\* pair, the value of the last of them in input order is the one in the
\* series, in the totals and in the latest snapshot, and the date is listed
\* once.
C7_LastWriteWins ==
    Done =>
        LET obs == Observations
            listed == [i \in DOMAIN chart_data.dates |->
                          parse_date(chart_data.dates[i]).value]
        IN  /\ \A o \in obs :
                  LET same == {p \in obs : p.type = o.type /\ p.date = o.date}
                      last == CHOOSE p \in same : \A q \in same : q.row <= p.row
                      at == {i \in DOMAIN listed : listed[i] = o.date}
                  IN  /\ Cardinality(at) = 1
                      /\ \A i \in at :
                            /\ Series(o.type)[i] = last.value
                            /\ i = Len(chart_data.dates) =>
                                  latest_data[o.type] = last.value
            /\ (net_worth_data = <<RowCash1, RowCash2>> /\ types_data = <<TypeCash>>) =>
                  /\ chart_data.total_assets = <<250>>
                  /\ chart_data.net_worth = <<250>>
                  /\ chart_data.dates = <<Date_02_01_2023>>

\* two rows of one category and one date with different values, the later
\* one used
C7_Witness ==
    /\ Done
    /\ Len(chart_data.dates) = 1
    /\ \E o \in Observations : \E p \in Observations :
          /\ o.row < p.row
          /\ o.type = p.type
          /\ o.date = p.date
          /\ o.value # p.value
          /\ Series(p.type) = <<p.value>>
          /\ chart_data.total_assets = <<p.value>>

\* an observation row that must make the call raise
FatalRow(row) ==
    Len(row) >= 5 /\ (~parse_date(row[1]).ok \/ ~float(row[5]).ok)

FatalInput ==
    \/ \E k \in DOMAIN net_worth_data : FatalRow(net_worth_data[k])
    \/ \E k \in DOMAIN types_data : Len(types_data[k]) < 2

\* C10: a call raises, returning nothing, whenever an observation row of at
\* least five fields has a date not in day/month/year form or an amount that
\* is not numeric, or a classification row has fewer than 2 fields (also
\* when there is no observation row).
C10_FatalErrorsPropagate ==
    /\ (pc \in {"latest", "done"}) => ~FatalInput
    /\ pc = "rows" => ~\E k \in DOMAIN types_data : Len(types_data[k]) < 2
    /\ AtRow => ~\E k \in 1..(row_i - 1) : FatalRow(net_worth_data[k])
    /\ pc = "raised" => (result = NoResult /\ exc \in {"ValueError", "IndexError"})
    /\ pc # "raised" => exc = "none"
    /\ pc # "done" => result = NoResult

\* an amount that is not numeric, after a row that was accepted
C10_Witness ==
    /\ pc = "raised"
    /\ exc = "ValueError"
    /\ result = NoResult
    /\ row_i = 2
    /\ dates # {}
    /\ Len(net_worth_data[2]) = 5
    /\ parse_date(net_worth_data[2][1]).ok
    /\ ~float(net_worth_data[2][5]).ok

\* a date that is not day/month/year
C10_WitnessDate ==
    /\ pc = "raised"
    /\ exc = "ValueError"
    /\ Len(net_worth_data[row_i]) = 5
    /\ ~parse_date(net_worth_data[row_i][1]).ok
    /\ float(net_worth_data[row_i][5]).ok

\* a short classification row and no observation row
C10_WitnessTypes ==
    /\ pc = "raised"
    /\ exc = "IndexError"
    /\ net_worth_data = <<>>
    /\ types_data = <<TypeShort>>

====
